---- MODULE Spec2Model ----
(***************************************************************************)
(* Model of the translation tooling of eneo-developer/skills/i18n-sync:    *)
(*   scripts/i18n-sync.py     (load, diff, merge, normalise, save)         *)
(*   scripts/i18n-extract.py  (usage scan of the source files; the file    *)
(*                             does not compile, see InvokeExtract)        *)
(* Strings are sequences of Unicode code points, so that Python's string   *)
(* order, str.strip, len and the "in" test are computed and not assumed.   *)
(* A table (a Python dict) is a sequence of <<key, value>> pairs in        *)
(* insertion order with pairwise distinct keys.                            *)
(***************************************************************************)
EXTENDS Integers, Sequences, FiniteSets, TLC

\* ------------------------------------------------------------------ bounds
\* largest number of entries of sv.json and en.json together before the
\* first invocation
MaxKeys == 3
\* largest number of .svelte files under the scan directory
MaxFiles == 1
\* longest key given to validate_snake_case and suggest_snake_case on their own
MaxKeyLen == 3
\* largest table given to find_naming_violations and find_duplicate_values on
\* their own
MaxEntries == 3

\* ----------------------------------------------------------------- strings
\* "$schema"
SCHEMA == <<36, 115, 99, 104, 101, 109, 97>>
\* "!"   (sorts before "$schema", violates the naming convention)
K_bang == <<33>>
\* "ab"
K_ab == <<97, 98>>
\* "b"
K_b == <<98>>
\* "[TODO: translate]"
TODO_EN == <<91, 84, 79, 68, 79, 58, 32, 116, 114, 97, 110, 115, 108, 97, 116, 101, 93>>
\* "[TODO: översätt]"
TODO_SV == <<91, 84, 79, 68, 79, 58, 32, 246, 118, 101, 114, 115, 228, 116, 116, 93>>
\* "TODO"
TODO == <<84, 79, 68, 79>>
\* "Hej", "x", "Hello", "Bye", "u"
V_hej == <<72, 101, 106>>
V_x == <<120>>
V_hello == <<72, 101, 108, 108, 111>>
V_bye == <<66, 121, 101>>
V_url == <<117>>

\* the keys a table file may hold before the first invocation
KeyUniverse == {SCHEMA, K_bang, K_ab, K_b}

\* the text each locale's file holds for a key before the first invocation
SvText(k) ==
  IF k = SCHEMA THEN V_url ELSE IF k = K_bang THEN V_x ELSE V_hej
EnText(k) ==
  IF k = SCHEMA THEN V_url ELSE IF k = K_b THEN V_bye ELSE V_hello

\* Python's str comparison a < b: lexicographic by code point
StrLess(a, b) ==
  \E i \in 1..(Len(a) + 1) :
     /\ i <= Len(b)
     /\ \A j \in 1..(i - 1) : a[j] = b[j]
     /\ (i = Len(a) + 1 \/ a[i] < b[i])

\* Python's "sub in s"
StrContains(s, sub) ==
  \E i \in 0..(Len(s) - Len(sub)) :
     \A j \in 1..Len(sub) : s[i + j] = sub[j]

\* str.isspace for one code point (the white space below U+0100)
IsSpace(c) == c \in {9, 10, 11, 12, 13, 28, 29, 30, 31, 32, 133, 160}

\* Python's s.strip()
StrStrip(s) ==
  LET keep == {i \in 1..Len(s) : ~IsSpace(s[i])}
  IN  IF keep = {} THEN <<>>
      ELSE LET lo == CHOOSE i \in keep : \A j \in keep : i <= j
               hi == CHOOSE i \in keep : \A j \in keep : j <= i
           IN  SubSeq(s, lo, hi)

IsLower(c) == c >= 97 /\ c <= 122
IsDigit(c) == c >= 48 /\ c <= 57
IsUpper(c) == c >= 65 /\ c <= 90

\* ------------------------------------------------------------ dict access
DictKeys(d) == {d[i][1] : i \in DOMAIN d}
DictHas(d, k) == k \in DictKeys(d)
DictGet(d, k) == d[CHOOSE i \in DOMAIN d : d[i][1] = k][2]
\* d[k] = v: an existing key keeps its position, a new key goes last
DictSet(d, k, v) ==
  IF DictHas(d, k)
  THEN [i \in DOMAIN d |-> IF d[i][1] = k THEN <<k, v>> ELSE d[i]]
  ELSE Append(d, <<k, v>>)
\* the mapping of a dict, without its order
DictItems(d) == {d[i] : i \in DOMAIN d}
\* the keys of a dict in iteration order
DictKeySeq(d) == [i \in DOMAIN d |-> d[i][1]]

\* sorted(S) for a set of strings
RECURSIVE SortedSeq(_)
SortedSeq(S) ==
  IF S = {} THEN <<>>
  ELSE LET m == CHOOSE x \in S : \A y \in S \ {x} : StrLess(x, y)
       IN  <<m>> \o SortedSeq(S \ {m})

\* all orders in which a set can be iterated
RECURSIVE Orders(_)
Orders(S) ==
  IF S = {} THEN {<<>>}
  ELSE UNION {{<<x>> \o t : t \in Orders(S \ {x})} : x \in S}

\* ------------------------------------------------- i18n-sync.py: files
\* A file of the file system: absent, not JSON ("invalid": written by
\* somebody else; "partial": a dump that was cut short), or a JSON object.
\* json.dump(indent=2, ensure_ascii=False) followed by json.load gives back
\* the same str -> str dict in the same order, so a JSON file is represented
\* by the dict that was dumped into it.
AbsentFile == [kind |-> "absent", data |-> <<>>]
InvalidFile == [kind |-> "invalid", data |-> <<>>]
PartialFile == [kind |-> "partial", data |-> <<>>]
JsonFile(d) == [kind |-> "json", data |-> d]

\* the points of save_json's try block at which the file system may refuse
Faults == {"none", "rename", "open", "write", "unlink"}

\* load_json: (data, True), or ({}, False) on FileNotFoundError and on
\* json.JSONDecodeError
load_json(file) ==
  IF file.kind = "json" THEN <<file.data, TRUE>> ELSE <<<<>>, FALSE>>

\* the except block of save_json (lines 113-121): restore the backup if one
\* exists.  restore_fault: the rename in the handler raises, and the
\* exception leaves save_json.  Path.rename replaces an existing target
\* (POSIX); where it does not, the rename raises, which is restore_fault.
save_json_handler(file, backup, restore_fault) ==
  IF backup.kind # "absent"
  THEN IF restore_fault
       THEN [file |-> file, backup |-> backup, ret |-> "raise"]
       ELSE [file |-> backup, backup |-> AbsentFile, ret |-> "False"]
  ELSE [file |-> file, backup |-> backup, ret |-> "False"]

\* save_json without the dry-run test of lines 91-95
save_json_ignores_dry_run(file, backup, data, dry_run, fault, restore_fault) ==
  IF fault = "none"
  THEN [file |-> JsonFile(data), backup |-> AbsentFile, ret |-> "True"]
  ELSE [file |-> file, backup |-> backup, ret |-> "False"]

\* save_json(file_path, data, dry_run) on the file at file_path and its
\* ".json.backup" sibling; the result is the two files afterwards and
\* "True", "False" or "raise" (an exception that leaves save_json).
save_json(file, backup, data, dry_run, fault, restore_fault) ==
  IF dry_run
  THEN [file |-> file, backup |-> backup, ret |-> "True"]
  ELSE
    LET exists == file.kind # "absent"
        \* lines 99-101: file_path.rename(backup_path)
        f1 == IF exists /\ fault # "rename" THEN AbsentFile ELSE file
        b1 == IF exists /\ fault # "rename" THEN file ELSE backup
    IN  IF exists /\ fault = "rename"
        THEN save_json_handler(file, backup, restore_fault)
        \* lines 104-106: open(file_path, "w"), json.dump, f.write
        ELSE IF fault = "open"
        THEN save_json_handler(f1, b1, restore_fault)
        ELSE IF fault = "write"
        THEN save_json_handler(PartialFile, b1, restore_fault)
        \* lines 109-110: unlink the backup
        ELSE IF b1.kind # "absent" /\ fault = "unlink"
        THEN save_json_handler(JsonFile(data), b1, restore_fault)
        ELSE [file |-> JsonFile(data), backup |-> AbsentFile, ret |-> "True"]

\* ------------------------------------------- i18n-sync.py: the reconciler
NameChar(c) == IsLower(c) \/ IsDigit(c) \/ c = 95

\* validate_snake_case: re.match(r"^[a-z][a-z0-9_]*$", key).  In Python "$"
\* also matches just before a newline that ends the string.
validate_snake_case(key) ==
  /\ Len(key) >= 1
  /\ IsLower(key[1])
  /\ \/ \A i \in 2..Len(key) : NameChar(key[i])
     \/ /\ Len(key) >= 2
        /\ key[Len(key)] = 10
        /\ \A i \in 2..(Len(key) - 1) : NameChar(key[i])

\* sort_keys_alphabetically without the special case of "$schema"
sort_keys_schema_in_order(data) ==
  LET ks == SortedSeq(DictKeys(data))
  IN  [i \in 1..Len(ks) |-> <<ks[i], DictGet(data, ks[i])>>]

\* sort_keys_alphabetically: a new dict, "$schema" first, then sorted(rest)
sort_keys_alphabetically(data) ==
  LET head == IF DictHas(data, SCHEMA)
              THEN <<<<SCHEMA, DictGet(data, SCHEMA)>>>> ELSE <<>>
      ks   == SortedSeq({k \in DictKeys(data) : k # SCHEMA})
  IN  head \o [i \in 1..Len(ks) |-> <<ks[i], DictGet(data, ks[i])>>]

\* find_missing_keys without the "$schema" filters of lines 168-169
find_missing_keys_counts_schema(sv, en) ==
  <<DictKeys(sv) \ DictKeys(en), DictKeys(en) \ DictKeys(sv)>>

\* find_missing_keys: <<missing_in_en, missing_in_sv>>
find_missing_keys(sv, en) ==
  LET sv_keys == {k \in DictKeys(sv) : k # SCHEMA}
      en_keys == {k \in DictKeys(en) : k # SCHEMA}
  IN  <<sv_keys \ en_keys, en_keys \ sv_keys>>

\* str.lower for one code point (below U+0100)
LowerChar(c) ==
  IF IsUpper(c) \/ (c >= 192 /\ c <= 222 /\ c # 215) THEN c + 32 ELSE c

\* re.sub("(.)([A-Z][a-z]+)", r"\1_\2", s) from index i on: "." is any
\* character but a newline, "[a-z]+" takes the whole lowercase run, and the
\* search goes on behind the match
RECURSIVE SubWord(_, _)
SubWord(s, i) ==
  IF i > Len(s) THEN <<>>
  ELSE IF /\ i + 2 <= Len(s)
          /\ s[i] # 10 /\ IsUpper(s[i + 1]) /\ IsLower(s[i + 2])
       THEN LET e == CHOOSE e \in (i + 2)..Len(s) :
                       /\ \A t \in (i + 2)..e : IsLower(s[t])
                       /\ (e = Len(s) \/ ~IsLower(s[e + 1]))
            IN  <<s[i], 95>> \o SubSeq(s, i + 1, e) \o SubWord(s, e + 1)
       ELSE <<s[i]>> \o SubWord(s, i + 1)

\* re.sub("([a-z0-9])([A-Z])", r"\1_\2", s) from index i on
RECURSIVE SubHump(_, _)
SubHump(s, i) ==
  IF i > Len(s) THEN <<>>
  ELSE IF /\ i + 1 <= Len(s)
          /\ (IsLower(s[i]) \/ IsDigit(s[i])) /\ IsUpper(s[i + 1])
       THEN <<s[i], 95, s[i + 1]>> \o SubHump(s, i + 2)
       ELSE <<s[i]>> \o SubHump(s, i + 1)

\* re.sub("_+", "_", s) from index i on
RECURSIVE SubUnderscores(_, _)
SubUnderscores(s, i) ==
  IF i > Len(s) THEN <<>>
  ELSE IF s[i] = 95
       THEN LET e == CHOOSE e \in i..Len(s) :
                       /\ \A t \in i..e : s[t] = 95
                       /\ (e = Len(s) \/ s[e + 1] # 95)
            IN  <<95>> \o SubUnderscores(s, e + 1)
       ELSE <<s[i]>> \o SubUnderscores(s, i + 1)

\* s.strip("_")
StripUnderscores(s) ==
  LET keep == {i \in 1..Len(s) : s[i] # 95}
  IN  IF keep = {} THEN <<>>
      ELSE LET lo == CHOOSE i \in keep : \A j \in keep : i <= j
               hi == CHOOSE i \in keep : \A j \in keep : j <= i
           IN  SubSeq(s, lo, hi)

\* suggest_snake_case (lines 132-141)
suggest_snake_case(key) ==
  LET s1 == SubWord(key, 1)
      h  == SubHump(s1, 1)
      s2 == [i \in 1..Len(h) |-> LowerChar(h[i])]
      s3 == SubUnderscores(s2, 1)
  IN  StripUnderscores(s3)

\* find_naming_violations: (key, suggestion) for the violating keys, in the
\* dict's order
find_naming_violations(data) ==
  LET bad == SelectSeq(DictKeySeq(data),
                       LAMBDA k : k # SCHEMA /\ ~validate_snake_case(k))
  IN  [i \in 1..Len(bad) |-> <<bad[i], suggest_snake_case(bad[i])>>]

\* the filter with the length test of line 204 on the value as it is
DuplicateCandidate_unstripped(key, value) ==
  /\ key # SCHEMA
  /\ value # <<>> /\ StrStrip(value) # <<>>
  /\ Len(value) > 1
  /\ ~StrContains(value, TODO)

\* the filter without the placeholder test of lines 207-209
DuplicateCandidate_counts_todo(key, value) ==
  /\ key # SCHEMA
  /\ value # <<>> /\ StrStrip(value) # <<>>
  /\ Len(StrStrip(value)) > 1

\* the filter of find_duplicate_values (lines 196-209): the entry counts
DuplicateCandidate(key, value) ==
  /\ key # SCHEMA
  /\ value # <<>> /\ StrStrip(value) # <<>>
  /\ Len(StrStrip(value)) > 1
  /\ ~StrContains(value, TODO)

\* find_duplicate_values: value -> keys (in the dict's order), for the
\* values that two or more counted entries share
find_duplicate_values(data) ==
  LET counted == {i \in DOMAIN data : DuplicateCandidate(data[i][1], data[i][2])}
      keysOf(v) == SelectSeq(data, LAMBDA e : e[2] = v /\ DuplicateCandidate(e[1], e[2]))
      vals == {data[i][2] : i \in counted}
      dup == {v \in vals : Len(keysOf(v)) > 1}
  IN  [v \in dup |-> [i \in 1..Len(keysOf(v)) |-> keysOf(v)[i][1]]]

\* the loops, had they assigned the placeholder to every entry
add_keys_overwrites(data, order, placeholder) ==
  [i \in DOMAIN data |-> IF data[i][1] = SCHEMA THEN data[i]
                         ELSE <<data[i][1], placeholder>>]
  \o [i \in 1..Len(order) |-> <<order[i], placeholder>>]

\* the loops, had they skipped the first key of the set
add_keys_skips_first(data, order, placeholder) ==
  IF order = <<>> THEN data
  ELSE data \o [i \in 1..(Len(order) - 1) |-> <<order[i + 1], placeholder>>]

\* the loops of lines 393-395 and 402-404: data[key] = placeholder for each
\* key of the missing set, in the order the set is iterated
RECURSIVE add_keys(_, _, _)
add_keys(data, order, placeholder) ==
  IF order = <<>> THEN data
  ELSE add_keys(DictSet(data, Head(order), placeholder), Tail(order), placeholder)

\* line 276 and line 277
has_issues_of(m_en, m_sv, v_sv, v_en) ==
  m_en # {} \/ m_sv # {} \/ v_sv # <<>> \/ v_en # <<>>
has_warnings_of(d_sv, d_en) ==
  DOMAIN d_sv # {} \/ DOMAIN d_en # {}

\* line 367: the invocation only reports
report_only(f) == f.check \/ ~(f.add_keys \/ f.fix \/ f.auto_fix)

\* lines 368-382: the exit status of a reporting invocation
check_exit_status(issues, warnings) ==
  IF ~issues /\ ~warnings THEN 0 ELSE IF issues THEN 1 ELSE 0

\* line 430 without "modified or"
should_sort_only_auto_fix(is_modified, auto_fix) == auto_fix

\* line 430
should_sort(is_modified, auto_fix) == is_modified \/ auto_fix

\* line 259
both_loaded(ok_sv, ok_en) == ok_sv /\ ok_en

\* ------------------------------------------------------------------ state
VARIABLES
  prog,            \* the script the behaviour runs: "sync" or "extract"; "lib"
                   \* when a function of i18n-sync.py is called on its own
  call,            \* that call: the function, its argument and what it returns
  pc,              \* where the running script is
  exit_status,     \* the process's exit status, -1 while it runs
  flags,           \* the command line flags of i18n-sync
  fs,              \* the files sv.json and en.json
  bak,             \* their siblings sv.json.backup and en.json.backup
  sv_data, en_data, sv_ok, en_ok,
  missing_in_en, missing_in_sv,
  sv_violations, en_violations, sv_duplicates, en_duplicates,
  modified, sv_saved, en_saved,
  scan_dir,        \* i18n-extract: the directory --scan names
  used_keys, key_locations,   \* i18n-extract: the usage index
  fs0, bak0,       \* history: the files when the invocation started
  save_calls,      \* history: the calls of save_json in this invocation
  prev_ok          \* history: the invocation before this one was a successful
                   \* apply-mode run of i18n-sync

syncVars == <<flags, sv_ok, en_ok, missing_in_en, missing_in_sv,
              sv_violations, en_violations, sv_duplicates, en_duplicates,
              modified, sv_saved, en_saved>>
extractVars == <<scan_dir, used_keys, key_locations>>
histVars == <<fs0, bak0, save_calls, prev_ok>>
vars == <<prog, call, pc, exit_status, fs, bak, sv_data, en_data,
          syncVars, extractVars, histVars>>

FlagSets == [check : BOOLEAN, add_keys : BOOLEAN, fix : BOOLEAN,
             auto_fix : BOOLEAN, dry_run : BOOLEAN]
NoFlags == [check |-> FALSE, add_keys |-> FALSE, fix |-> FALSE,
            auto_fix |-> FALSE, dry_run |-> FALSE]

\* the sequences over S without repetition, of length at most n
RECURSIVE Arrangements(_, _)
Arrangements(S, n) ==
  IF n = 0 THEN {<<>>}
  ELSE {<<>>} \cup UNION {{<<x>> \o t : t \in Arrangements(S \ {x}, n - 1)} : x \in S}

\* the table files that may exist before the first invocation
InitialTables(locale) ==
  {[i \in DOMAIN ks |-> <<ks[i], IF locale = "sv" THEN SvText(ks[i]) ELSE EnText(ks[i])>>] :
     ks \in Arrangements(KeyUniverse, MaxKeys)}
InitialFiles(locale) ==
  {AbsentFile, InvalidFile} \cup {JsonFile(d) : d \in InitialTables(locale)}
InitialFileSystems ==
  {f \in [sv : InitialFiles("sv"), en : InitialFiles("en")] :
     Len(f.sv.data) + Len(f.en.data) <= MaxKeys}

\* ---------------------------------------------- i18n-extract.py: the scan
\* "\w" of a str pattern, for the code points below U+0100
IsWord(c) ==
  \/ IsLower(c) \/ IsUpper(c) \/ IsDigit(c) \/ c = 95
  \/ c \in {170, 181, 186}
  \/ (c >= 192 /\ c <= 255 /\ c \notin {215, 247})

\* the last index of the longest run of [a-z0-9_] that starts at j
RunEnd(line, j) ==
  CHOOSE e \in (j - 1)..Len(line) :
     /\ \A t \in j..e : NameChar(line[t])
     /\ (e = Len(line) \/ ~NameChar(line[e + 1]))

\* where a match of \bm\.([a-z][a-z0-9_]*)\b that starts at i ends, 0 if
\* there is none.  The run is followed by the end of the line, by a
\* non-word character (a boundary) or by another word character; in the last
\* case no shorter run ends at a boundary either.
MatchEnd(line, i) ==
  IF /\ i + 2 <= Len(line)
     /\ (i = 1 \/ ~IsWord(line[i - 1]))
     /\ line[i] = 109 /\ line[i + 1] = 46 /\ IsLower(line[i + 2])
  THEN LET e == RunEnd(line, i + 3)
       IN  IF e = Len(line) \/ ~IsWord(line[e + 1]) THEN e ELSE 0
  ELSE 0

\* pattern.findall(line), from index i on
RECURSIVE FindAllFrom(_, _)
FindAllFrom(line, i) ==
  IF i > Len(line) THEN <<>>
  ELSE LET e == MatchEnd(line, i)
       IN  IF e > 0
           THEN <<SubSeq(line, i + 2, e)>> \o FindAllFrom(line, e + 1)
           ELSE FindAllFrom(line, i + 1)

\* keys_found[key].append(line_num) for the keys of one line
RECURSIVE AppendLine(_, _, _)
AppendLine(found, keys, n) ==
  IF keys = <<>> THEN found
  ELSE LET k == Head(keys)
           old == IF DictHas(found, k) THEN DictGet(found, k) ELSE <<>>
       IN  AppendLine(DictSet(found, k, Append(old, n)), Tail(keys), n)

RECURSIVE ScanLines(_, _, _)
ScanLines(found, lines, n) ==
  IF n > Len(lines) THEN found
  ELSE ScanLines(AppendLine(found, FindAllFrom(lines[n], 1), n), lines, n + 1)

\* extract_translation_keys: key -> line numbers; empty for a file that
\* cannot be read or decoded
extract_translation_keys(file) ==
  IF file.readable THEN ScanLines(<<>>, file.lines, 1) ELSE <<>>

\* lines 102-104 for one file: key_locations[key][path] = line_numbers
RECURSIVE AddLocations(_, _, _)
AddLocations(locs, in_file, path) ==
  IF in_file = <<>> THEN locs
  ELSE LET k == Head(in_file)[1]
           old == IF DictHas(locs, k) THEN DictGet(locs, k) ELSE <<>>
       IN  AddLocations(DictSet(locs, k, DictSet(old, path, Head(in_file)[2])),
                        Tail(in_file), path)

\* lines 139-141 of i18n-extract.py
all_translation_keys(sv, en) ==
  {k \in DictKeys(sv) : k # SCHEMA} \cup {k \in DictKeys(en) : k # SCHEMA}

\* "m.ab()", "", "m.b m.ab"
SRC_A == [readable |-> TRUE,
          lines |-> << <<109, 46, 97, 98, 40, 41>>, <<>>,
                       <<109, 46, 98, 32, 109, 46, 97, 98>> >>]
\* "{m.q}"
SRC_B == [readable |-> TRUE, lines |-> << <<123, 109, 46, 113, 125>> >>]
\* a file that is not UTF-8
SRC_BAD == [readable |-> FALSE, lines |-> <<>>]
SourceFiles == {SRC_A, SRC_B, SRC_BAD}

\* the directories --scan may name: a missing one, or one that holds the
\* given .svelte files.  under_cwd: --scan is an absolute path below the
\* working directory, the only case in which Path.relative_to(Path.cwd())
\* of line 104 does not raise ValueError.
ScanDirs ==
  {[exists |-> FALSE, under_cwd |-> FALSE, files |-> <<>>]}
  \cup {[exists |-> TRUE, under_cwd |-> u, files |-> f] :
          u \in BOOLEAN, f \in Arrangements(SourceFiles, MaxFiles)}
NoDir == [exists |-> FALSE, under_cwd |-> FALSE, files |-> <<>>]

\* the loop of lines 99-104 from file i on; a file is named by its position
\* in the list that rglob returned
RECURSIVE ScanFrom(_, _, _, _)
ScanFrom(dir, i, used, locs) ==
  IF i > Len(dir.files)
  THEN [raised |-> FALSE, used_keys |-> used, key_locations |-> locs]
  ELSE LET keys_in_file == extract_translation_keys(dir.files[i])
       IN  IF keys_in_file # <<>> /\ ~dir.under_cwd
           THEN [raised |-> TRUE, used_keys |-> used \cup {Head(keys_in_file)[1]},
                 key_locations |-> locs]
           ELSE ScanFrom(dir, i + 1, used \cup DictKeys(keys_in_file),
                         AddLocations(locs, keys_in_file, i))

\* scan_all_svelte_files (lines 88-106), were it ever called: the usage
\* index, or the ValueError of line 104
scan_all_svelte_files(dir) == ScanFrom(dir, 1, {}, <<>>)

\* lines 150-152 and 237-241: the exit status of a completed report
extract_exit_status(used, sv, en) ==
  IF Cardinality(used \ all_translation_keys(sv, en)) > 0 THEN 1 ELSE 0

\* ------------------------------------------------------------------- Init
NoCall == [fn |-> "none", arg |-> <<>>, done |-> FALSE, ret |-> <<>>]

Init ==
  /\ prog \in {"sync", "extract"} /\ pc = "idle" /\ exit_status = -1
  /\ call = NoCall
  /\ flags = NoFlags
  /\ fs \in InitialFileSystems
  /\ bak = [sv |-> AbsentFile, en |-> AbsentFile]
  /\ sv_data = <<>> /\ en_data = <<>> /\ sv_ok = FALSE /\ en_ok = FALSE
  /\ missing_in_en = {} /\ missing_in_sv = {}
  /\ sv_violations = <<>> /\ en_violations = <<>>
  /\ sv_duplicates = <<>> /\ en_duplicates = <<>>
  /\ modified = FALSE /\ sv_saved = "none" /\ en_saved = "none"
  /\ scan_dir = NoDir
  /\ used_keys = {} /\ key_locations = <<>>
  /\ fs0 = fs /\ bak0 = bak /\ save_calls = <<>> /\ prev_ok = FALSE

\* the process ends with the given status
Exit(status) == pc' = "exited" /\ exit_status' = status

ResetLocals ==
  /\ sv_data' = <<>> /\ en_data' = <<>> /\ sv_ok' = FALSE /\ en_ok' = FALSE
  /\ missing_in_en' = {} /\ missing_in_sv' = {}
  /\ sv_violations' = <<>> /\ en_violations' = <<>>
  /\ sv_duplicates' = <<>> /\ en_duplicates' = <<>>
  /\ modified' = FALSE /\ sv_saved' = "none" /\ en_saved' = "none"
  /\ used_keys' = {} /\ key_locations' = <<>>

\* a command line runs i18n-sync: a new process, which starts with lines
\* 239-260 of main (the options, then the two loads)
InvokeSync ==
  /\ prog = "sync" /\ pc = "idle"
  /\ flags' \in FlagSets
  /\ LET sv == load_json(fs.sv)
         en == load_json(fs.en)
     IN  /\ sv_data' = sv[1] /\ sv_ok' = sv[2]
         /\ en_data' = en[1] /\ en_ok' = en[2]
         /\ IF ~both_loaded(sv[2], en[2])
            THEN Exit(2)
            ELSE pc' = "find_issues" /\ exit_status' = -1
  /\ fs0' = fs /\ bak0' = bak /\ save_calls' = <<>>
  /\ UNCHANGED <<prog, call, fs, bak, missing_in_en, missing_in_sv, sv_violations,
                 en_violations, sv_duplicates, en_duplicates, modified,
                 sv_saved, en_saved, extractVars, prev_ok>>

\* a command line runs i18n-extract: a new process.  Python compiles the
\* whole file before it runs any of it, and the f-string that starts on line
\* 131 is not closed on that line (the line ends inside the literal), so the
\* compilation ends with "SyntaxError: unterminated string literal" and the
\* process with status 1, whatever the command line and the files are.  No
\* statement of the file is executed: nothing is loaded and nothing scanned.
InvokeExtract ==
  /\ prog = "extract" /\ pc = "idle"
  /\ scan_dir' \in ScanDirs
  /\ Exit(1)
  /\ fs0' = fs /\ bak0' = bak /\ save_calls' = <<>>
  /\ UNCHANGED <<prog, call, fs, bak, sv_data, en_data, syncVars, used_keys,
                 key_locations, prev_ok>>

\* the process is gone: only the files are left of it
ProcessEnds ==
  /\ pc = "exited"
  /\ pc' = "idle" /\ exit_status' = -1
  /\ flags' = NoFlags /\ scan_dir' = NoDir
  /\ ResetLocals
  /\ fs0' = fs /\ bak0' = bak /\ save_calls' = <<>>
  /\ prev_ok' = (/\ prog = "sync" /\ exit_status = 0
                 /\ ~report_only(flags) /\ ~flags.dry_run)
  /\ UNCHANGED <<prog, call, fs, bak>>

\* ------------------------------------------------ i18n-sync.py: main
\* lines 269-277
FindIssues ==
  /\ prog = "sync" /\ pc = "find_issues"
  /\ LET missing == find_missing_keys(sv_data, en_data)
     IN  missing_in_en' = missing[1] /\ missing_in_sv' = missing[2]
  /\ sv_violations' = find_naming_violations(sv_data)
  /\ en_violations' = find_naming_violations(en_data)
  /\ sv_duplicates' = find_duplicate_values(sv_data)
  /\ en_duplicates' = find_duplicate_values(en_data)
  /\ pc' = "check_mode"
  /\ UNCHANGED <<prog, call, exit_status, flags, fs, bak, sv_data, en_data, sv_ok,
                 en_ok, modified, sv_saved, en_saved, extractVars, histVars>>

has_issues ==
  has_issues_of(missing_in_en, missing_in_sv, sv_violations, en_violations)
has_warnings == has_warnings_of(sv_duplicates, en_duplicates)

\* lines 366-382: --check mode, report only
CheckMode ==
  /\ prog = "sync" /\ pc = "check_mode"
  /\ report_only(flags)
  /\ Exit(check_exit_status(has_issues, has_warnings))
  /\ UNCHANGED <<prog, call, flags, fs, bak, sv_data, en_data, syncVars,
                 extractVars, histVars>>

\* lines 384-427: add the missing keys (the naming violations are printed)
AddMissingKeys ==
  /\ prog = "sync" /\ pc = "check_mode"
  /\ ~report_only(flags)
  /\ IF flags.add_keys \/ flags.fix \/ flags.auto_fix
     THEN /\ \E order \in Orders(missing_in_en) :
               en_data' = add_keys(en_data, order, TODO_EN)
          /\ \E order \in Orders(missing_in_sv) :
               sv_data' = add_keys(sv_data, order, TODO_SV)
          /\ modified' = (missing_in_en # {} \/ missing_in_sv # {})
     ELSE UNCHANGED <<sv_data, en_data, modified>>
  /\ pc' = "sort"
  /\ UNCHANGED <<prog, call, exit_status, flags, fs, bak, sv_ok, en_ok,
                 missing_in_en, missing_in_sv, sv_violations, en_violations,
                 sv_duplicates, en_duplicates, sv_saved, en_saved,
                 extractVars, histVars>>

\* lines 429-433
SortKeys ==
  /\ prog = "sync" /\ pc = "sort"
  /\ IF should_sort(modified, flags.auto_fix)
     THEN /\ sv_data' = sort_keys_alphabetically(sv_data)
          /\ en_data' = sort_keys_alphabetically(en_data)
     ELSE UNCHANGED <<sv_data, en_data>>
  /\ pc' = IF modified THEN "save_sv" ELSE "no_changes"
  /\ UNCHANGED <<prog, call, exit_status, flags, fs, bak, syncVars, extractVars,
                 histVars>>

\* one call save_json(path, data, dry_run): the files afterwards and the
\* record of the call
SaveCall(path, data, fault, restore_fault) ==
  LET r == save_json(fs[path], bak[path], data, flags.dry_run, fault, restore_fault)
  IN  /\ fs' = [fs EXCEPT ![path] = r.file]
      /\ bak' = [bak EXCEPT ![path] = r.backup]
      /\ save_calls' = Append(save_calls,
                              [path |-> path, data |-> data, ret |-> r.ret,
                               file_before |-> fs[path],
                               file_after |-> r.file, backup_after |-> r.backup])

\* line 439; an exception that leaves save_json ends the process (status 1)
SaveSv ==
  /\ prog = "sync" /\ pc = "save_sv"
  /\ \E fault \in Faults, restore_fault \in BOOLEAN :
       /\ SaveCall("sv", sv_data, fault, restore_fault)
       /\ LET ret == save_json(fs.sv, bak.sv, sv_data, flags.dry_run,
                               fault, restore_fault).ret
          IN  /\ sv_saved' = ret
              /\ IF ret = "raise" THEN Exit(1)
                 ELSE pc' = "save_en" /\ UNCHANGED exit_status
  /\ UNCHANGED <<prog, call, flags, sv_data, en_data, sv_ok, en_ok, missing_in_en,
                 missing_in_sv, sv_violations, en_violations, sv_duplicates,
                 en_duplicates, modified, en_saved, extractVars, fs0, bak0,
                 prev_ok>>

\* line 440
SaveEn ==
  /\ prog = "sync" /\ pc = "save_en"
  /\ \E fault \in Faults, restore_fault \in BOOLEAN :
       /\ SaveCall("en", en_data, fault, restore_fault)
       /\ LET ret == save_json(fs.en, bak.en, en_data, flags.dry_run,
                               fault, restore_fault).ret
          IN  /\ en_saved' = ret
              /\ IF ret = "raise" THEN Exit(1)
                 ELSE pc' = "saved" /\ UNCHANGED exit_status
  /\ UNCHANGED <<prog, call, flags, sv_data, en_data, sv_ok, en_ok, missing_in_en,
                 missing_in_sv, sv_violations, en_violations, sv_duplicates,
                 en_duplicates, modified, sv_saved, extractVars, fs0, bak0,
                 prev_ok>>

\* lines 442-457: main returns (status 0) or sys.exit(2)
Finish ==
  /\ prog = "sync" /\ pc = "saved"
  /\ IF sv_saved = "True" /\ en_saved = "True" THEN Exit(0) ELSE Exit(2)
  /\ UNCHANGED <<prog, call, flags, fs, bak, sv_data, en_data, syncVars,
                 extractVars, histVars>>

\* lines 458-459
NoChanges ==
  /\ prog = "sync" /\ pc = "no_changes"
  /\ Exit(0)
  /\ UNCHANGED <<prog, call, flags, fs, bak, sv_data, en_data, syncVars,
                 extractVars, histVars>>

Next ==
  \/ InvokeSync \/ InvokeExtract \/ ProcessEnds
  \/ FindIssues \/ CheckMode \/ AddMissingKeys \/ SortKeys
  \/ SaveSv \/ SaveEn \/ Finish \/ NoChanges

Spec == Init /\ [][Next]_vars

\* ------------------------------ the functions of i18n-sync.py on their own
\* the characters of the keys: a B 1 _ newline -
KeyChars == {97, 66, 49, 95, 10, 45}
\* the keys of at most n characters
Keys(n) == UNION {[1..m -> KeyChars] : m \in 0..n}

\* the keys of the tables with several entries: "$schema", "a", "aB", "a\n",
\* "1a"
NamingKeys == {SCHEMA, <<97>>, <<97, 66>>, <<97, 10>>, <<49, 97>>}
\* the keys and the values of the tables given to find_duplicate_values:
\* "$schema", "a", "ab", "b"; "", two spaces, "x", " x", "Hi", "xTODO" and the
\* placeholder "[TODO: translate]"
DupKeys == {SCHEMA, <<97>>, K_ab, K_b}
DupValues ==
  {<<>>, <<32, 32>>, V_x, <<32, 120>>, <<72, 105>>, <<120, 84, 79, 68, 79>>, TODO_EN}
NewCall(fn, arg) == [fn |-> fn, arg |-> arg, done |-> FALSE, ret |-> <<>>]

\* the module is imported and one of its functions is about to be called:
\* suggest_snake_case on a key, find_naming_violations on a table with one
\* such key or with several of NamingKeys, find_duplicate_values on a table
\* of DupKeys and DupValues
FunctionInit ==
  /\ prog = "lib" /\ pc = "idle" /\ exit_status = -1
  /\ \/ \E k \in Keys(MaxKeyLen) : call = NewCall("suggest_snake_case", k)
     \/ \E k \in Keys(MaxKeyLen) :
          call = NewCall("find_naming_violations", << <<k, V_x>> >>)
     \/ \E ks \in Arrangements(NamingKeys, MaxEntries) :
          call = NewCall("find_naming_violations",
                         [i \in DOMAIN ks |-> <<ks[i], V_x>>])
     \/ \E ks \in Arrangements(DupKeys, MaxEntries) :
          \E vs \in [DOMAIN ks -> DupValues] :
            call = NewCall("find_duplicate_values",
                           [i \in DOMAIN ks |-> <<ks[i], vs[i]>>])
  /\ flags = NoFlags
  /\ fs = [sv |-> AbsentFile, en |-> AbsentFile]
  /\ bak = [sv |-> AbsentFile, en |-> AbsentFile]
  /\ sv_data = <<>> /\ en_data = <<>> /\ sv_ok = FALSE /\ en_ok = FALSE
  /\ missing_in_en = {} /\ missing_in_sv = {}
  /\ sv_violations = <<>> /\ en_violations = <<>>
  /\ sv_duplicates = <<>> /\ en_duplicates = <<>>
  /\ modified = FALSE /\ sv_saved = "none" /\ en_saved = "none"
  /\ scan_dir = NoDir /\ used_keys = {} /\ key_locations = <<>>
  /\ fs0 = fs /\ bak0 = bak /\ save_calls = <<>> /\ prev_ok = FALSE

Returns(fn, value) ==
  /\ prog = "lib" /\ call.fn = fn /\ ~call.done
  /\ call' = [call EXCEPT !.done = TRUE, !.ret = value]
  /\ UNCHANGED <<prog, pc, exit_status, fs, bak, sv_data, en_data, syncVars,
                 extractVars, histVars>>

Call_suggest_snake_case ==
  Returns("suggest_snake_case", suggest_snake_case(call.arg))
Call_find_naming_violations ==
  Returns("find_naming_violations", find_naming_violations(call.arg))
Call_find_duplicate_values ==
  Returns("find_duplicate_values", find_duplicate_values(call.arg))

FunctionNext ==
  \/ Call_suggest_snake_case
  \/ Call_find_naming_violations
  \/ Call_find_duplicate_values

FunctionSpec == FunctionInit /\ [][FunctionNext]_vars

\* ------------------------------------------------------------ properties
\* the keys of a table other than "$schema"
PlainKeys(d) == {k \in DictKeys(d) : k # SCHEMA}

\* "$schema" only in the first position, the other keys strictly ascending
IsNormalized(d) ==
  /\ \A i \in DOMAIN d : d[i][1] = SCHEMA => i = 1
  /\ \A i, j \in DOMAIN d :
       (i < j /\ d[i][1] # SCHEMA) => StrLess(d[i][1], d[j][1])

\* i18n-sync has loaded both tables and is past its report
Reported ==
  /\ prog = "sync" /\ sv_ok /\ en_ok
  /\ pc \in {"check_mode", "sort", "save_sv", "save_en", "saved",
             "no_changes", "exited"}

\* i18n-sync is past the step that adds the missing keys
Applied ==
  /\ prog = "sync" /\ sv_ok /\ en_ok /\ ~report_only(flags)
  /\ pc \in {"sort", "save_sv", "save_en", "saved", "no_changes", "exited"}

\* C1: find_missing_keys returns keys(sv) \ keys(en) and keys(en) \ keys(sv),
\* both taken without "$schema"; the two sets are disjoint and neither holds
\* "$schema", also when only one table has a "$schema" entry.
C1_MissingKeys ==
  (prog = "sync" /\ pc = "check_mode") =>
    /\ missing_in_en = {k \in DictKeys(sv_data) : k # SCHEMA /\ k \notin DictKeys(en_data)}
    /\ missing_in_sv = {k \in DictKeys(en_data) : k # SCHEMA /\ k \notin DictKeys(sv_data)}
    /\ missing_in_en \cap missing_in_sv = {}
    /\ SCHEMA \notin missing_in_en \cup missing_in_sv

C1_Witness ==
  /\ prog = "sync" /\ pc = "check_mode"
  /\ DictHas(sv_data, SCHEMA) /\ ~DictHas(en_data, SCHEMA)
  /\ missing_in_en # {} /\ missing_in_sv # {}

C3_SecondRunIsNoOp ==
  prev_ok =>
    /\ fs0.sv.kind = "json" /\ fs0.en.kind = "json"
    /\ PlainKeys(fs0.sv.data) = PlainKeys(fs0.en.data)
    /\ (Reported /\ ~report_only(flags)) =>
         /\ missing_in_en = {} /\ missing_in_sv = {}
         /\ modified = FALSE
         /\ save_calls = <<>>
         /\ pc \notin {"save_sv", "save_en", "saved"}
         /\ fs = fs0 /\ bak = bak0

C3_Witness ==
  /\ prev_ok /\ Reported /\ ~report_only(flags) /\ ~flags.dry_run
  /\ pc = "exited"
  /\ \E i \in DOMAIN fs0.en.data : fs0.en.data[i][2] = TODO_EN
  /\ \E i \in DOMAIN fs0.sv.data : fs0.sv.data[i][2] = TODO_SV

\* the tables a state holds
TablesAtHand == {sv_data, en_data, fs.sv.data, fs.en.data}

\* C4: sort_keys_alphabetically(T) has exactly the entries of T, "$schema"
\* first if present and the other keys in strictly ascending code-point
\* order; sorting the result again gives the result, order included.
C4_SortKeys ==
  \A T \in TablesAtHand :
    LET R == sort_keys_alphabetically(T)
    IN  /\ DictItems(R) = DictItems(T)
        /\ Len(R) = Len(T)
        /\ DictHas(T, SCHEMA) => R[1][1] = SCHEMA
        /\ IsNormalized(R)
        /\ sort_keys_alphabetically(R) = R

C4_Witness ==
  /\ prog = "sync" /\ pc = "save_sv"
  /\ DictHas(fs0.sv.data, SCHEMA) /\ fs0.sv.data[1][1] # SCHEMA
  /\ DictHas(fs0.sv.data, K_bang)
  /\ Len(sv_data) >= 3
  /\ sv_data[1][1] = SCHEMA /\ sv_data[2][1] = K_bang

\* C5: on an existing file save_json is all or nothing: when it returns False
\* the file holds its previous content, when it returns True the file holds
\* the new content, and in both cases no ".json.backup" sibling remains.
C5_SaveIsAllOrNothing ==
  \A i \in DOMAIN save_calls :
    LET c == save_calls[i]
    IN  (~flags.dry_run /\ c.file_before.kind # "absent") =>
          /\ c.ret = "False" =>
               (c.file_after = c.file_before /\ c.backup_after = AbsentFile)
          /\ c.ret = "True" =>
               (c.file_after = JsonFile(c.data) /\ c.backup_after = AbsentFile)

\* C6: naming violations and duplicate groups never affect the exit status:
\* a reporting run on two loadable tables with no key missing in either
\* direction exits with status 0.
C6_AdvisoryFindingsExitZero ==
  (Reported /\ pc = "exited" /\ report_only(flags)
     /\ missing_in_en = {} /\ missing_in_sv = {}) => exit_status = 0

\* i18n-sync runs read-only: --check, or no apply flag, or --dry-run
ReadOnly == report_only(flags) \/ flags.dry_run

\* C7: a read-only invocation of i18n-sync renames, writes and deletes no
\* file: both tables and their backup siblings are as they were at its start.
C7_ReadOnlyTouchesNoFile ==
  (prog = "sync" /\ pc # "idle" /\ ReadOnly) => (fs = fs0 /\ bak = bak0)

C7_Witness ==
  /\ prog = "sync" /\ pc = "exited" /\ exit_status = 0
  /\ flags.dry_run /\ ~report_only(flags)
  /\ modified /\ Len(save_calls) = 2
  /\ sv_data # fs0.sv.data /\ en_data # fs0.en.data

\* C8: an apply-mode run without --dry-run whose tables load ends with both
\* files rewritten in normalized form, in particular under --auto-fix when no
\* key is missing.  (Stated for the runs with --auto-fix that end normally.)
C8_AutoFixRewritesBoth ==
  (Applied /\ pc = "exited" /\ exit_status = 0
     /\ flags.auto_fix /\ ~flags.dry_run) =>
    /\ fs.sv = JsonFile(sort_keys_alphabetically(sv_data))
    /\ fs.en = JsonFile(sort_keys_alphabetically(en_data))

\* C9: every table passed to save_json is in normalized order, for both
\* tables also when only one of them received new keys, and whatever the
\* order in which the missing keys were added.
C9_SavedTablesAreNormalized ==
  \A i \in DOMAIN save_calls : IsNormalized(save_calls[i].data)

C9_Witness ==
  /\ prog = "sync" /\ pc = "saved" /\ ~flags.auto_fix
  /\ Len(save_calls) = 2
  /\ missing_in_sv = {} /\ Cardinality(missing_in_en) >= 2
  /\ ~IsNormalized(fs0.sv.data)
  /\ save_calls[1].path = "sv" /\ save_calls[2].path = "en"

\* C10: input errors are fatal before any effect.  i18n-sync: if a table file
\* is missing or is not JSON, the process exits with status 2, computes no
\* report and calls save_json for no file.  i18n-extract: a missing scan
\* directory or table file, or a table file that is not JSON, exits with
\* status 2 before a source file is scanned.
C10_InputErrorsAreFatal ==
  /\ (prog = "sync" /\ pc # "idle"
        /\ (fs0.sv.kind # "json" \/ fs0.en.kind # "json")) =>
       /\ pc = "exited" /\ exit_status = 2
       /\ missing_in_en = {} /\ missing_in_sv = {}
       /\ sv_violations = <<>> /\ en_violations = <<>>
       /\ DOMAIN sv_duplicates = {} /\ DOMAIN en_duplicates = {}
       /\ save_calls = <<>> /\ fs = fs0 /\ bak = bak0
  /\ (prog = "extract" /\ pc # "idle"
        /\ (~scan_dir.exists \/ fs.sv.kind # "json" \/ fs.en.kind # "json")) =>
       (pc = "exited" /\ exit_status = 2 /\ used_keys = {})

\* C11: when save_json returns False for a table in apply mode, i18n-sync
\* exits with a status that is not zero, is not the status of an input error
\* (2, line 260) and is not the status of check-mode issues (line 382).
C11_WriteErrorStatusIsDistinct ==
  (/\ prog = "sync" /\ pc = "exited" /\ ~report_only(flags)
   /\ sv_saved # "raise" /\ en_saved # "raise"
   /\ \E i \in DOMAIN save_calls : save_calls[i].ret = "False") =>
    /\ exit_status # 0
    /\ exit_status # 2
    /\ exit_status # check_exit_status(TRUE, FALSE)

\* a lowercase letter followed only by lowercase letters, digits and
\* underscores, and nothing else
Conforming(k) ==
  /\ Len(k) >= 1 /\ IsLower(k[1])
  /\ \A i \in 2..Len(k) : IsLower(k[i]) \/ IsDigit(k[i]) \/ k[i] = 95

\* C12: find_naming_violations(table) holds an entry for key k if and only if
\* k is not "$schema" and k is not a lowercase letter followed only by
\* lowercase letters, digits and underscores; the entries appear once each,
\* in the table's key order.
C12_NamingViolations ==
  (call.fn = "find_naming_violations" /\ call.done) =>
    LET bad == SelectSeq(DictKeySeq(call.arg),
                         LAMBDA k : k # SCHEMA /\ ~Conforming(k))
    IN  [i \in DOMAIN call.ret |-> call.ret[i][1]] = bad

\* the non-schema keys of table T whose value is v
KeysWithValue(T, v) ==
  {T[i][1] : i \in {j \in DOMAIN T : T[j][2] = v /\ T[j][1] # SCHEMA}}

WhitespaceOnly(v) == \A i \in DOMAIN v : IsSpace(v[i])

\* the values of table T
ValuesOf(T) == {T[i][2] : i \in DOMAIN T}

\* find_duplicate_values(T) = R has a group exactly for the values of the set
\* counted that two or more non-schema keys share, and the group of v is the
\* set of the non-schema keys whose value is v, each once
GroupsAre(T, R, counted) ==
  /\ DOMAIN R = {v \in counted : Cardinality(KeysWithValue(T, v)) >= 2}
  /\ \A v \in DOMAIN R :
       /\ {R[v][i] : i \in DOMAIN R[v]} = KeysWithValue(T, v)
       /\ Len(R[v]) = Cardinality(KeysWithValue(T, v))

\* C13, as claimed: find_duplicate_values(table) holds a group for value v if
\* and only if v is the value of two or more non-schema keys, v is not empty
\* or whitespace-only, v has length greater than 1 and v does not contain
\* "TODO"; the group is the set of the non-schema keys whose value is v.
C13_DuplicateGroups_Claimed ==
  (call.fn = "find_duplicate_values" /\ call.done) =>
    GroupsAre(call.arg, call.ret,
              {v \in ValuesOf(call.arg) :
                 /\ v # <<>> /\ ~WhitespaceOnly(v)
                 /\ Len(v) > 1
                 /\ ~StrContains(v, TODO)})

\* C13, amended: as claimed, with the length taken without the white space
\* around v (v has two or more characters that are not white space).
C13_DuplicateGroups ==
  (call.fn = "find_duplicate_values" /\ call.done) =>
    GroupsAre(call.arg, call.ret,
              {v \in ValuesOf(call.arg) :
                 /\ v # <<>> /\ ~WhitespaceOnly(v)
                 /\ \E i, j \in DOMAIN v :
                      i < j /\ ~IsSpace(v[i]) /\ ~IsSpace(v[j])
                 /\ ~StrContains(v, TODO)})

\* " x" is the value of two keys and has no group, "Hi" would have one
C13_Witness ==
  /\ call.fn = "find_duplicate_values" /\ call.done
  /\ Len(call.arg) = 3
  /\ Cardinality(KeysWithValue(call.arg, <<32, 120>>)) = 2
  /\ DOMAIN call.ret = {}

\* an invocation of i18n-extract whose scan directory exists and whose two
\* table files hold JSON objects has ended
ExtractHasRun ==
  /\ prog = "extract" /\ pc = "exited"
  /\ scan_dir.exists /\ fs.sv.kind = "json" /\ fs.en.kind = "json"

\* the matches of the reference pattern on line n of a file
Hits(file, n) == FindAllFrom(file.lines[n], 1)

CountIn(seq, x) == Cardinality({i \in DOMAIN seq : seq[i] = x})

\* the keys that the readable files of a list reference
ReferencedKeys(files) ==
  UNION {UNION {{Hits(files[f], n)[i] : i \in DOMAIN Hits(files[f], n)} :
                  n \in DOMAIN files[f].lines} :
           f \in {g \in DOMAIN files : files[g].readable}}

\* C14: i18n-extract exits with status 1 if and only if a key referenced in
\* the scanned files is in neither sv.json nor en.json ("$schema" left out),
\* and with status 0 otherwise; keys that are in a table and never referenced
\* do not change the status.
C14_ExtractExitStatus ==
  ExtractHasRun =>
    exit_status =
      IF ReferencedKeys(scan_dir.files)
           \ (PlainKeys(fs.sv.data) \cup PlainKeys(fs.en.data)) # {}
      THEN 1 ELSE 0

\* C15: the usage index is exact for the readable files: used_keys is the
\* set of the keys that occur in some file, a key has an entry for a file
\* only if it occurs in it, and line n is listed for key k and file f as many
\* times as the reference pattern "m.k" occurs on line n of f, in ascending
\* order.
C15_UsageIndexIsExact ==
  ExtractHasRun =>
    LET files == scan_dir.files
    IN  /\ used_keys = ReferencedKeys(files)
        /\ DictKeys(key_locations) = used_keys
        /\ \A k \in used_keys :
             \A f \in DOMAIN files :
               LET at == {n \in DOMAIN files[f].lines : CountIn(Hits(files[f], n), k) > 0}
                   by_file == DictGet(key_locations, k)
               IN  /\ DictHas(by_file, f) <=> (files[f].readable /\ at # {})
                   /\ DictHas(by_file, f) =>
                        LET L == DictGet(by_file, f)
                        IN  /\ \A n \in DOMAIN files[f].lines :
                                 CountIn(L, n) = CountIn(Hits(files[f], n), k)
                            /\ \A i, j \in DOMAIN L : i < j => L[i] <= L[j]

\* C16: a file that cannot be read or decoded is not fatal:
\* extract_translation_keys returns nothing for it, the index is that of the
\* readable files alone, and with no referenced key missing from the tables
\* the process exits with status 0.
C16_UnreadableFileIsSkipped ==
  (ExtractHasRun /\ \E f \in DOMAIN scan_dir.files : ~scan_dir.files[f].readable) =>
    LET files == scan_dir.files
        readable == SelectSeq(files, LAMBDA file : file.readable)
    IN  /\ \A f \in DOMAIN files :
             ~files[f].readable => extract_translation_keys(files[f]) = <<>>
        /\ used_keys = ReferencedKeys(readable)
        /\ (ReferencedKeys(readable) \subseteq PlainKeys(fs.sv.data) \cup PlainKeys(fs.en.data))
             => exit_status = 0

\* the groups of a result of find_duplicate_values, as sets of keys
Groups(R) == {<<v, {R[v][i] : i \in DOMAIN R[v]}>> : v \in DOMAIN R}

\* C17: no key whose value is an auto-added placeholder belongs to a group of
\* find_duplicate_values, for the files that any number of runs leave behind
\* and for the tables in memory; after the apply step, before and after the
\* sort (the tables do not change from there on), the groups of each table
\* are exactly the groups found before it, however many keys were added.
C17_PlaceholdersAreNoDuplicates ==
  /\ pc = "idle" =>
       \A T \in {fs.sv.data, fs.en.data} :
         DOMAIN find_duplicate_values(T) \cap {TODO_EN, TODO_SV} = {}
  /\ (Applied /\ pc \in {"sort", "save_sv", "no_changes"}) =>
       \A pair \in {<<sv_data, sv_duplicates>>, <<en_data, en_duplicates>>} :
         LET R == find_duplicate_values(pair[1])
         IN  /\ Groups(R) = Groups(pair[2])
             /\ \A v \in DOMAIN R : \A i \in DOMAIN R[v] :
                  DictGet(pair[1], R[v][i]) \notin {TODO_EN, TODO_SV}

C17_Witness ==
  /\ Applied /\ pc = "save_sv" /\ ~flags.dry_run /\ modified
  /\ Cardinality({i \in DOMAIN en_data : en_data[i][2] = TODO_EN}) >= 2
  /\ DOMAIN sv_duplicates # {}

\* step (a): the interior uppercase letters that get an underscore in front:
\* those that follow a lowercase letter or a digit, and those that start an
\* uppercase-then-lowercase word
UnderscoreBefore(k) ==
  {i \in 2..Len(k) :
     /\ IsUpper(k[i])
     /\ \/ IsLower(k[i - 1]) \/ IsDigit(k[i - 1])
        \/ (i < Len(k) /\ IsLower(k[i + 1]))}

RECURSIVE InsertUnderscores(_, _)
InsertUnderscores(k, i) ==
  IF i > Len(k) THEN <<>>
  ELSE (IF i \in UnderscoreBefore(k) THEN <<95>> ELSE <<>>)
       \o <<k[i]>> \o InsertUnderscores(k, i + 1)

\* the characters of s at the indices I, in order
RECURSIVE Pick(_, _, _)
Pick(s, i, I) ==
  IF i > Len(s) THEN <<>>
  ELSE (IF i \in I THEN <<s[i]>> ELSE <<>>) \o Pick(s, i + 1, I)

\* steps (a) to (d) for key k
SnakeCaseOf(k) ==
  LET a == InsertUnderscores(k, 1)
      b == [i \in DOMAIN a |-> IF IsUpper(a[i]) THEN a[i] + 32 ELSE a[i]]
      c == Pick(b, 1, {i \in DOMAIN b : ~(b[i] = 95 /\ i > 1 /\ b[i - 1] = 95)})
  IN  Pick(c, 1, {i \in DOMAIN c :
                    /\ \E j \in 1..i : c[j] # 95
                    /\ \E j \in i..Len(c) : c[j] # 95})

\* C18: suggest_snake_case(key) is the key with an underscore put before each
\* interior uppercase letter that follows a lowercase letter or digit or
\* starts an uppercase-then-lowercase word, then lowercased, runs of
\* underscores collapsed and leading and trailing underscores trimmed; a
\* lowercase run followed by a capitalized word gives the two words in
\* lowercase joined by one underscore; the result has no uppercase letter, no
\* two underscores in a row and no underscore at either end.
C18_SuggestSnakeCase ==
  (call.fn = "suggest_snake_case" /\ call.done) =>
    LET k == call.arg
        r == call.ret
    IN  /\ r = SnakeCaseOf(k)
        /\ \A n \in 1..(Len(k) - 2) :
             (/\ \A i \in 1..n : IsLower(k[i])
              /\ IsUpper(k[n + 1])
              /\ \A i \in (n + 2)..Len(k) : IsLower(k[i]))
             => r = SubSeq(k, 1, n) \o <<95, k[n + 1] + 32>> \o SubSeq(k, n + 2, Len(k))
        /\ \A i \in DOMAIN r : ~IsUpper(r[i])
        /\ \A i \in 1..(Len(r) - 1) : ~(r[i] = 95 /\ r[i + 1] = 95)
        /\ r # <<>> => (r[1] # 95 /\ r[Len(r)] # 95)

====
